---- MODULE Spec2Model ----
(***************************************************************************)
(* A model of the reverse proxy "charles": the route matcher               *)
(* (src/src/proxy.rs RouteMatcher), the request handler                    *)
(* (ProxyServer::handle_request / proxy_request), and the shared           *)
(* telemetry store (src/src/state.rs SharedState, and the alternate store  *)
(* src/src/types.rs ProxyState).                                           *)
(*                                                                         *)
(* Text (hosts, paths, patterns, URLs) is modelled as a sequence of        *)
(* one-character strings, so that starts_with / ends_with / slicing are    *)
(* computed character by character as Rust's str methods compute them.     *)
(***************************************************************************)
EXTENDS Integers, Sequences, FiniteSets, TLC

VARIABLES
    arg,            \* pure-function specifications: the inputs of the call
    ret,            \* pure-function specifications: [done, val] of the call
    metrics,        \* SharedState.metrics: the ProxyMetrics behind the RwLock
    request_logs,   \* SharedState.request_logs: the Vec<RequestLog> behind the RwLock
    transactions,   \* ProxyState.transactions: the VecDeque<Transaction>
    metrics_lock,   \* RwLock state of SharedState.metrics
    logs_lock,      \* RwLock state of SharedState.request_logs
    pc,             \* per task: the position of the task in its code
    req,            \* per task: the locals of handle_request
    tmp,            \* per task: the value read under a lock, before it is written back
    snapshot,       \* per task: the value a read call returned to it
    hist            \* history (ghost) variable: what has happened so far

vars == <<arg, ret, metrics, request_logs, transactions, metrics_lock, logs_lock,
          pc, req, tmp, snapshot, hist>>

(***************************************************************************)
(* Text                                                                    *)
(***************************************************************************)

\* All texts over alphabet A of length at most n.
Strs(A, n) == UNION {[1..k -> A] : k \in 0..n}

\* Rust str::starts_with(prefix): the first len(prefix) characters are prefix.
StartsWith(s, p) ==
    /\ Len(p) <= Len(s)
    /\ \A i \in 1..Len(p) : s[i] = p[i]

\* Rust str::ends_with(suffix): the last len(suffix) characters are suffix.
EndsWith(s, suf) ==
    /\ Len(suf) <= Len(s)
    /\ \A i \in 1..Len(suf) : s[Len(s) - Len(suf) + i] = suf[i]

\* Rust &s[n..]: the text from byte offset n (0-based) to the end.
SliceFrom(s, n) == SubSeq(s, n + 1, Len(s))

(***************************************************************************)
(* Route matcher (src/src/proxy.rs, RouteMatcher)                          *)
(***************************************************************************)

\* A route-table entry as the matcher reads it: Route.hosts and Route.path_prefix
\* (src/src/config.rs).  The other fields of Route are added where the
\* forwarding engine reads them.
WILDCARD == <<"*", ".">>

\* One iteration of the loop of matches_host: does `pattern` accept `host`?
\* suffix is &pattern[2..], the pattern text after "*.".
PatternMatches(pattern, host) ==
    IF StartsWith(pattern, WILDCARD)
    THEN LET suffix == SliceFrom(pattern, 2)
         IN  EndsWith(host, suffix) \/ (Len(suffix) > 1 /\ host = SliceFrom(suffix, 1))
    ELSE pattern = host

\* matches_host: the loop over the patterns, from index i on; true at the first
\* pattern that accepts the host, false when the list is exhausted.
RECURSIVE MatchesHostFrom(_, _, _)
MatchesHostFrom(patterns, host, i) ==
    IF i > Len(patterns) THEN FALSE
    ELSE IF PatternMatches(patterns[i], host) THEN TRUE
    ELSE MatchesHostFrom(patterns, host, i + 1)

matches_host(patterns, host) == MatchesHostFrom(patterns, host, 1)

\* Variant of PathMatches: the prefix must end at a segment boundary.
PathMatchesSegment(path_prefix, path) ==
    /\ StartsWith(path, path_prefix)
    /\ \/ Len(path) = Len(path_prefix)
       \/ path[Len(path_prefix) + 1] = "/"
       \/ (Len(path_prefix) > 0 /\ path_prefix[Len(path_prefix)] = "/")

\* The path condition of find_route: path.starts_with(&route.path_prefix).
PathMatches(path_prefix, path) == StartsWith(path, path_prefix)

\* The condition of the if in find_route's loop.
RouteAccepts(route, host, path) ==
    matches_host(route.hosts, host) /\ PathMatches(route.path_prefix, path)

\* find_route: the loop over the routes, from index i on.  The result is the
\* index of the route returned (Some(route)), or 0 for None.
RECURSIVE FindRouteFrom(_, _, _, _)
FindRouteFrom(routes, host, path, i) ==
    IF i > Len(routes) THEN 0
    ELSE IF RouteAccepts(routes[i], host, path) THEN i
    ELSE FindRouteFrom(routes, host, path, i + 1)

\* Variant of find_route: the last matching route wins.
RECURSIVE FindRouteLastFrom(_, _, _, _)
FindRouteLastFrom(routes, host, path, i) ==
    IF i < 1 THEN 0
    ELSE IF RouteAccepts(routes[i], host, path) THEN i
    ELSE FindRouteLastFrom(routes, host, path, i - 1)

find_route_last(routes, host, path) == FindRouteLastFrom(routes, host, path, Len(routes))

find_route(routes, host, path) == FindRouteFrom(routes, host, path, 1)

(***************************************************************************)
(* Telemetry store (src/src/state.rs, SharedState)                         *)
(***************************************************************************)

NumTasks == 2
Tasks == 1..NumTasks

\* SharedState::new: both counters 0, no upstream status, an empty log.
NewMetrics ==
    [total_requests |-> 0, active_requests |-> 0, total_errors |-> 0,
     upstreams_status |-> <<>>]

\* A parking_lot RwLock: at most one writer (0: none), or any number of readers.
NewLock == [writer |-> 0, readers |-> {}]

\* The locals of a task that is not in a call.
NoReq == [id |-> 0, call |-> "none"]

\* History: the number of calls (or requests) started so far, every log
\* record pushed so far, in push order,
\* and the requests whose handler has returned.
NewHist == [calls |-> 0, pushed |-> <<>>, returned |-> {}]

\* The state after construction of everything the pure-function
\* specifications leave alone.
StoreInit ==
    /\ metrics = NewMetrics
    /\ request_logs = <<>>
    /\ transactions = <<>>
    /\ metrics_lock = NewLock
    /\ logs_lock = NewLock
    /\ pc = [t \in Tasks |-> "idle"]
    /\ req = [t \in Tasks |-> NoReq]
    /\ tmp = [t \in Tasks |-> 0]
    /\ snapshot = [t \in Tasks |-> <<>>]
    /\ hist = NewHist

storeVars == <<metrics, request_logs, transactions, metrics_lock, logs_lock,
               pc, req, tmp, snapshot, hist>>

(***************************************************************************)
(* matches_host as a function of its inputs                                *)
(***************************************************************************)

MaxHostLen == 2
MaxPatterns == 2
HostAlphabet == {"a", "."}
HostSet == Strs(HostAlphabet, MaxHostLen)
\* Exact patterns, and wildcard patterns "*." followed by any text.
PatternSet == HostSet \cup {WILDCARD \o s : s \in HostSet}
PatternLists == UNION {[1..k -> PatternSet] : k \in 0..MaxPatterns}

NoRet == [done |-> FALSE, val |-> FALSE]

MatchHostInit ==
    /\ arg \in [patterns : PatternLists, host : HostSet]
    /\ ret = NoRet
    /\ StoreInit

\* The call matches_host(&patterns, host).
MatchesHostCall ==
    /\ ~ret.done
    /\ ret' = [done |-> TRUE, val |-> matches_host(arg.patterns, arg.host)]
    /\ UNCHANGED <<arg, storeVars>>

MatchHostNext == MatchesHostCall

MatchHostSpec == MatchHostInit /\ [][MatchHostNext]_vars

\* The text of a wildcard pattern after "*.".
SuffixOf(pattern) == SubSeq(pattern, 3, Len(pattern))

\* h = x \o t for some text x: h ends with t.
HasTail(h, t) == \E k \in 0..Len(h) : SubSeq(h, k + 1, Len(h)) = t

\* C8: for a single wildcard pattern "*.suffix", matches_host is true if and
\* only if the host ends with suffix.
C8_WildcardIffEndsWith ==
    (ret.done /\ Len(arg.patterns) = 1 /\ StartsWith(arg.patterns[1], WILDCARD))
        => (ret.val <=> HasTail(arg.host, SuffixOf(arg.patterns[1])))

\* C9: the patterns match a host if and only if the host equals a
\* non-wildcard pattern, or for some pattern "*.X" the host ends with ".X" or
\* equals X.
C9_ExactOrDotBoundary ==
    ret.done =>
        (ret.val <=>
            \E i \in 1..Len(arg.patterns) :
                LET p == arg.patterns[i]
                IN  IF StartsWith(p, WILDCARD)
                    THEN \/ HasTail(arg.host, <<".">> \o SuffixOf(p))
                         \/ arg.host = SuffixOf(p)
                    ELSE arg.host = p)

(***************************************************************************)
(* find_route as a function of its inputs                                  *)
(***************************************************************************)

MaxRoutes == 2
MaxPathLen == 3
PathAlphabet == {"/", "a"}
PathSet == Strs(PathAlphabet, MaxPathLen)
\* The prefixes "", "/" and "/a".
PrefixSet == {<<>>, <<"/">>, <<"/", "a">>}
\* The host lists ["a"] and ["*.a"], and the request hosts "a", ".a" and "b".
RouteHostLists == {<<(<<"a">>)>>, <<(<<"*", ".", "a">>)>>}
RequestHosts == {<<"a">>, <<".", "a">>, <<"b">>}
RouteSet == [hosts : RouteHostLists, path_prefix : PrefixSet]
RouteTables == UNION {[1..k -> RouteSet] : k \in 0..MaxRoutes}

FindRouteInit ==
    /\ arg \in [routes : RouteTables, host : RequestHosts, path : PathSet]
    /\ ret = [done |-> FALSE, val |-> 0]
    /\ StoreInit

\* The call find_route(host, path) on a matcher holding arg.routes.
FindRouteCall ==
    /\ ~ret.done
    /\ ret' = [done |-> TRUE, val |-> find_route(arg.routes, arg.host, arg.path)]
    /\ UNCHANGED <<arg, storeVars>>

FindRouteNext == FindRouteCall

FindRouteSpec == FindRouteInit /\ [][FindRouteNext]_vars

\* p is a literal prefix of s: s = p \o x for some text x.
IsLiteralPrefix(p, s) == \E k \in 0..Len(s) : SubSeq(s, 1, k) = p

\* Route i of the table of the call matches the request of the call.
Matches(i) ==
    /\ matches_host(arg.routes[i].hosts, arg.host)
    /\ IsLiteralPrefix(arg.routes[i].path_prefix, arg.path)

\* C7: find_route returns the first route in table order that matches, and
\* none when no route matches.
C7_FirstMatchWins ==
    ret.done =>
        /\ ret.val \in 0..Len(arg.routes)
        /\ ret.val # 0 => Matches(ret.val)
        /\ \A j \in 1..Len(arg.routes) : Matches(j) => (ret.val # 0 /\ ret.val <= j)

\* Two different routes both match, and the first one is returned.
C7_Witness ==
    /\ ret.done
    /\ Len(arg.routes) = 2
    /\ arg.routes[1] # arg.routes[2]
    /\ Matches(1) /\ Matches(2)
    /\ StartsWith(arg.routes[2].path_prefix, arg.routes[1].path_prefix)
    /\ ret.val = 1

\* C10: a route whose hosts match (and which no earlier route pre-empts) is
\* selected if and only if its path_prefix is a literal prefix of the path.
C10_LiteralPrefix ==
    ret.done =>
        \A i \in 1..Len(arg.routes) :
            (/\ matches_host(arg.routes[i].hosts, arg.host)
             /\ \A j \in 1..(i - 1) : ~Matches(j))
                => (ret.val = i <=> IsLiteralPrefix(arg.routes[i].path_prefix, arg.path))

\* Prefix "/a" selects path "/aa" (no segment boundary), and in the same table
\* an earlier route with other hosts did not match.
C10_Witness ==
    /\ ret.done
    /\ ret.val # 0
    /\ arg.routes[ret.val].path_prefix = <<"/", "a">>
    /\ arg.path = <<"/", "a", "a">>

(***************************************************************************)
(* The request-log ring: add_request_log (state.rs) and add_transaction    *)
(* (types.rs) as functions of the store                                    *)
(***************************************************************************)

\* "Keep only last 1000 requests" (state.rs) and MAX_HISTORY (types.rs).
MAX_LOGS == 1000
MAX_HISTORY == 1000

\* logs.push(log)
VecPush(logs, log) == Append(logs, log)

\* Variant of EvictOldest: the test is >= instead of >.
EvictOldestAtCapacity(logs) == IF Len(logs) >= MAX_LOGS THEN Tail(logs) ELSE logs

\* if logs.len() > 1000 { logs.remove(0); }
EvictOldest(logs) == IF Len(logs) > MAX_LOGS THEN Tail(logs) ELSE logs

\* The body of add_request_log, run under one write guard.
AddRequestLog(logs, log) == EvictOldest(VecPush(logs, log))

\* The body of add_transaction: pop_front when full, then push_back.
AddTransaction(txs, transaction) ==
    LET kept == IF Len(txs) >= MAX_HISTORY THEN Tail(txs) ELSE txs
    IN  Append(kept, transaction)

\* A single caller appends records one after the other; the n-th record
\* appended is modelled by the number n.  arg names the store under test.
MaxAppends == 1002

RingInit ==
    /\ arg \in {"request_logs", "transactions"}
    /\ ret = NoRet
    /\ StoreInit

RingAddRequestLog ==
    /\ arg = "request_logs"
    /\ hist.calls < MaxAppends
    /\ request_logs' = AddRequestLog(request_logs, hist.calls + 1)
    /\ hist' = [hist EXCEPT !.calls = @ + 1]
    /\ UNCHANGED <<arg, ret, metrics, transactions, metrics_lock, logs_lock,
                   pc, req, tmp, snapshot>>

RingAddTransaction ==
    /\ arg = "transactions"
    /\ hist.calls < MaxAppends
    /\ transactions' = AddTransaction(transactions, hist.calls + 1)
    /\ hist' = [hist EXCEPT !.calls = @ + 1]
    /\ UNCHANGED <<arg, ret, metrics, request_logs, metrics_lock, logs_lock,
                   pc, req, tmp, snapshot>>

RingNext == RingAddRequestLog \/ RingAddTransaction

RingSpec == RingInit /\ [][RingNext]_vars

Min(a, b) == IF a < b THEN a ELSE b

\* The last Min(n, cap) of the records 1..n, oldest first.
LastOf(n, cap) == [i \in 1..Min(n, cap) |-> n - Min(n, cap) + i]

\* C5: after n appends the store holds exactly the min(n, 1000) most recently
\* appended records, in append order (add_request_log and add_transaction).
C5_RingFifo ==
    /\ arg = "request_logs" => request_logs = LastOf(hist.calls, 1000)
    /\ arg = "transactions" => transactions = LastOf(hist.calls, 1000)

\* After 1001 appends the log holds 1000 records and record 1 is gone.
C5_Witness ==
    /\ arg = "request_logs"
    /\ hist.calls = 1001
    /\ Len(request_logs) = 1000
    /\ request_logs[1] = 2
    /\ request_logs[1000] = 1001

(***************************************************************************)
(* SharedState's methods, step by step.  Every method takes the RwLock of  *)
(* the field it touches for the length of its body; a task is at           *)
(* pc = "<method>" when it calls the method and waits for the lock, at     *)
(* "<method>.locked" while it holds the guard, and goes to `next` when     *)
(* the method returns and the guard is dropped.  A counter update          *)
(* (+= 1, -= 1) is a read of the field into tmp followed by a write.       *)
(***************************************************************************)

\* Variant of CanWrite: the write guard is handed out while readers hold
\* read guards.
CanWriteDespiteReaders(lock) == lock.writer = 0

\* Variant of CanWrite: the write guard is handed out while another is held.
CanWriteUnguarded(lock) == TRUE

\* RwLock::write() returns when there is no writer and no reader.
CanWrite(lock) == lock.writer = 0 /\ lock.readers = {}

\* Variant of CanRead: the read guard is handed out while a writer holds the lock.
CanReadUnguarded(lock) == TRUE

\* RwLock::read() returns when there is no writer.
CanRead(lock) == lock.writer = 0

WriteLocked(lock, t) == [lock EXCEPT !.writer = t]
WriteUnlocked(lock) == [lock EXCEPT !.writer = 0]
ReadLocked(lock, t) == [lock EXCEPT !.readers = @ \cup {t}]
ReadUnlocked(lock, t) == [lock EXCEPT !.readers = @ \ {t}]

Goto(t, label) == pc' = [pc EXCEPT ![t] = label]

\* Variant of DecrementedActive: the counter is left as it is.
DecrementedKept(v) == v

\* Variant of DecrementedActive: the subtraction without the > 0 test.
DecrementedUnchecked(v) == v - 1

\* if metrics.active_requests > 0 { metrics.active_requests -= 1; }
DecrementedActive(v) == IF v > 0 THEN v - 1 ELSE v

\* let mut metrics = self.metrics.write(); and the read of `field`.
MetricsWriteBegin(t, method, field) ==
    /\ pc[t] = method
    /\ CanWrite(metrics_lock)
    /\ metrics_lock' = WriteLocked(metrics_lock, t)
    /\ tmp' = [tmp EXCEPT ![t] = metrics[field]]
    /\ Goto(t, method \o ".locked")
    /\ UNCHANGED <<arg, ret, metrics, request_logs, transactions, logs_lock,
                   req, snapshot, hist>>

\* The write of `value` to `field`, and the drop of the guard on return.
MetricsWriteEnd(t, method, field, value, next) ==
    /\ pc[t] = method \o ".locked"
    /\ metrics' = [metrics EXCEPT ![field] = value]
    /\ metrics_lock' = WriteUnlocked(metrics_lock)
    /\ tmp' = [tmp EXCEPT ![t] = 0]
    /\ Goto(t, next)
    /\ UNCHANGED <<arg, ret, request_logs, transactions, logs_lock,
                   req, snapshot, hist>>

increment_total_requests(t, next) ==
    \/ MetricsWriteBegin(t, "increment_total_requests", "total_requests")
    \/ MetricsWriteEnd(t, "increment_total_requests", "total_requests", tmp[t] + 1, next)

increment_active_requests(t, next) ==
    \/ MetricsWriteBegin(t, "increment_active_requests", "active_requests")
    \/ MetricsWriteEnd(t, "increment_active_requests", "active_requests", tmp[t] + 1, next)

decrement_active_requests(t, next) ==
    \/ MetricsWriteBegin(t, "decrement_active_requests", "active_requests")
    \/ MetricsWriteEnd(t, "decrement_active_requests", "active_requests",
                       DecrementedActive(tmp[t]), next)

\* Variant of increment_errors: the increment goes to total_requests.
increment_errors_as_requests(t, next) ==
    \/ MetricsWriteBegin(t, "increment_errors", "total_requests")
    \/ MetricsWriteEnd(t, "increment_errors", "total_requests", tmp[t] + 1, next)

increment_errors(t, next) ==
    \/ MetricsWriteBegin(t, "increment_errors", "total_errors")
    \/ MetricsWriteEnd(t, "increment_errors", "total_errors", tmp[t] + 1, next)

\* Variant of get_metrics: the call takes the write guard and counts itself
\* in total_requests before it copies the metrics.
get_metrics_counted(t, next) ==
    \/ MetricsWriteBegin(t, "get_metrics", "total_requests")
    \/ /\ pc[t] = "get_metrics.locked"
       /\ metrics' = [metrics EXCEPT !.total_requests = tmp[t] + 1]
       /\ snapshot' = [snapshot EXCEPT ![t] = metrics']
       /\ metrics_lock' = WriteUnlocked(metrics_lock)
       /\ tmp' = [tmp EXCEPT ![t] = 0]
       /\ Goto(t, next)
       /\ UNCHANGED <<arg, ret, request_logs, transactions, logs_lock, req, hist>>

\* self.metrics.read().clone(): the read guard, then the derived Clone of
\* ProxyMetrics, which copies the fields one after the other in the order
\* of their declaration, and the drop of the guard on return.
get_metrics(t, next) ==
    \/ /\ pc[t] = "get_metrics"
       /\ CanRead(metrics_lock)
       /\ metrics_lock' = ReadLocked(metrics_lock, t)
       /\ Goto(t, "get_metrics.locked")
       /\ UNCHANGED <<arg, ret, metrics, request_logs, transactions, logs_lock,
                      req, tmp, snapshot, hist>>
    \/ /\ pc[t] = "get_metrics.locked"
       /\ snapshot' = [snapshot EXCEPT ![t] = [total_requests |-> metrics.total_requests]]
       /\ Goto(t, "get_metrics.total_requests")
       /\ UNCHANGED <<arg, ret, metrics, request_logs, transactions, metrics_lock,
                      logs_lock, req, tmp, hist>>
    \/ /\ pc[t] = "get_metrics.total_requests"
       /\ snapshot' = [snapshot EXCEPT ![t] =
                          [total_requests |-> @.total_requests,
                           active_requests |-> metrics.active_requests]]
       /\ Goto(t, "get_metrics.active_requests")
       /\ UNCHANGED <<arg, ret, metrics, request_logs, transactions, metrics_lock,
                      logs_lock, req, tmp, hist>>
    \/ /\ pc[t] = "get_metrics.active_requests"
       /\ snapshot' = [snapshot EXCEPT ![t] =
                          [total_requests |-> @.total_requests,
                           active_requests |-> @.active_requests,
                           total_errors |-> metrics.total_errors,
                           upstreams_status |-> metrics.upstreams_status]]
       /\ metrics_lock' = ReadUnlocked(metrics_lock, t)
       /\ Goto(t, next)
       /\ UNCHANGED <<arg, ret, metrics, request_logs, transactions, logs_lock,
                      req, tmp, hist>>

\* add_request_log(log): the write guard, logs.push(log), then the length
\* test with logs.remove(0) and the drop of the guard on return.
add_request_log(t, log, next) ==
    \/ /\ pc[t] = "add_request_log"
       /\ CanWrite(logs_lock)
       /\ logs_lock' = WriteLocked(logs_lock, t)
       /\ Goto(t, "add_request_log.locked")
       /\ UNCHANGED <<arg, ret, metrics, request_logs, transactions, metrics_lock,
                      req, tmp, snapshot, hist>>
    \/ /\ pc[t] = "add_request_log.locked"
       /\ request_logs' = VecPush(request_logs, log)
       /\ hist' = [hist EXCEPT !.pushed = Append(@, log)]
       /\ Goto(t, "add_request_log.pushed")
       /\ UNCHANGED <<arg, ret, metrics, transactions, metrics_lock, logs_lock,
                      req, tmp, snapshot>>
    \/ /\ pc[t] = "add_request_log.pushed"
       /\ request_logs' = EvictOldest(request_logs)
       /\ logs_lock' = WriteUnlocked(logs_lock)
       /\ Goto(t, next)
       /\ UNCHANGED <<arg, ret, metrics, transactions, metrics_lock,
                      req, tmp, snapshot, hist>>

\* self.request_logs.read().clone()
get_request_logs(t, next) ==
    \/ /\ pc[t] = "get_request_logs"
       /\ CanRead(logs_lock)
       /\ logs_lock' = ReadLocked(logs_lock, t)
       /\ Goto(t, "get_request_logs.locked")
       /\ UNCHANGED <<arg, ret, metrics, request_logs, transactions, metrics_lock,
                      req, tmp, snapshot, hist>>
    \/ /\ pc[t] = "get_request_logs.locked"
       /\ snapshot' = [snapshot EXCEPT ![t] = request_logs]
       /\ logs_lock' = ReadUnlocked(logs_lock, t)
       /\ Goto(t, next)
       /\ UNCHANGED <<arg, ret, metrics, request_logs, transactions, metrics_lock,
                      req, tmp, hist>>

(***************************************************************************)
(* The request log under concurrent callers: every task calls              *)
(* add_request_log and get_request_logs in any order.  The log starts      *)
(* empty, or as the ring is after arg = MAX_LOGS - 1 appends by one        *)
(* caller (the records 1..arg, see RingSpec), so that a few more appends   *)
(* fill it.  A record is modelled by the number of the call that made it.  *)
(***************************************************************************)

MaxLogCalls == 4

LogsInit ==
    /\ arg \in {0, MAX_LOGS - 1}
    /\ ret = NoRet
    /\ metrics = NewMetrics
    /\ request_logs = [i \in 1..arg |-> i]
    /\ transactions = <<>>
    /\ metrics_lock = NewLock
    /\ logs_lock = NewLock
    /\ pc = [t \in Tasks |-> "idle"]
    /\ req = [t \in Tasks |-> NoReq]
    /\ tmp = [t \in Tasks |-> 0]
    /\ snapshot = [t \in Tasks |-> <<>>]
    /\ hist = [calls |-> arg, pushed |-> [i \in 1..arg |-> i], returned |-> {}]

\* An idle task calls one of the two methods; the value an earlier call
\* returned to it is dropped.
LogsClientCall(t) ==
    /\ pc[t] = "idle"
    /\ hist.calls < arg + MaxLogCalls
    /\ \E method \in {"add_request_log", "get_request_logs"} :
          /\ Goto(t, method)
          /\ req' = [req EXCEPT ![t] = [id |-> hist.calls + 1, call |-> method]]
    /\ hist' = [hist EXCEPT !.calls = @ + 1]
    /\ snapshot' = [snapshot EXCEPT ![t] = <<>>]
    /\ UNCHANGED <<arg, ret, metrics, request_logs, transactions, metrics_lock,
                   logs_lock, tmp>>

LogsNext ==
    \E t \in Tasks :
        \/ LogsClientCall(t)
        \/ add_request_log(t, req[t].id, "idle")
        \/ get_request_logs(t, "idle")

LogsSpec == LogsInit /\ [][LogsNext]_vars

\* The last Min(Len(s), cap) elements of s.
LastElems(s, cap) == SubSeq(s, Len(s) - Min(Len(s), cap) + 1, Len(s))

\* C6: push-and-evict is one indivisible step for every other caller: no
\* reader holds or is handed more than 1000 records, and whenever no append
\* is in progress the log is exactly the last min(n, 1000) of the n records
\* pushed so far (none lost, one eviction per append over capacity).
C6_PushEvictIndivisible ==
    /\ \A t \in Tasks : Len(snapshot[t]) <= 1000
    /\ \A t \in Tasks : t \in logs_lock.readers => Len(request_logs) <= 1000
    /\ logs_lock.writer = 0 => request_logs = LastElems(hist.pushed, 1000)

\* An append has pushed the 1001st record and not yet evicted, a second task
\* is waiting in get_request_logs, and an earlier append already evicted.
C6_Witness ==
    \E t, u \in Tasks :
        /\ pc[t] = "add_request_log.pushed"
        /\ Len(request_logs) = 1001
        /\ request_logs[1] > 1
        /\ pc[u] = "get_request_logs"

(***************************************************************************)
(* The counters under concurrent callers: every task calls the four        *)
(* counter methods and get_metrics in any order, a decrement before any    *)
(* increment included.                                                     *)
(***************************************************************************)

MaxMetricsCalls == 4

MetricsMethods ==
    {"increment_total_requests", "increment_active_requests",
     "decrement_active_requests", "increment_errors", "get_metrics"}

MetricsInit ==
    /\ arg = 0
    /\ ret = NoRet
    /\ StoreInit

\* An idle task calls one of the methods.
MetricsClientCall(t) ==
    /\ pc[t] = "idle"
    /\ hist.calls < MaxMetricsCalls
    /\ \E method \in MetricsMethods :
          /\ Goto(t, method)
          /\ req' = [req EXCEPT ![t] = [id |-> 0, call |-> method]]
    /\ hist' = [hist EXCEPT !.calls = @ + 1]
    /\ UNCHANGED <<arg, ret, metrics, request_logs, transactions, metrics_lock,
                   logs_lock, tmp, snapshot>>

MetricsNext ==
    \E t \in Tasks :
        \/ MetricsClientCall(t)
        \/ increment_total_requests(t, "idle")
        \/ increment_active_requests(t, "idle")
        \/ decrement_active_requests(t, "idle")
        \/ increment_errors(t, "idle")
        \/ get_metrics(t, "idle")

MetricsSpec == MetricsInit /\ [][MetricsNext]_vars

\* C4: active_requests never underflows or wraps (it stays between 0 and the
\* number of calls made), and a decrement that finds it at 0 leaves it at 0.
C4_NoUnderflow ==
    /\ [](metrics.active_requests \in 0..hist.calls)
    /\ [][\A t \in Tasks :
            (/\ pc[t] = "decrement_active_requests.locked"
             /\ pc'[t] = "idle"
             /\ metrics.active_requests = 0) => metrics'.active_requests = 0]_vars

\* Of the two calls made so far, the decrement has run to completion on a
\* counter at 0, and the increment, called by another task, is still to come.
C4_Witness ==
    \E t, u \in Tasks :
        /\ hist.calls = 2
        /\ pc[t] = "idle"
        /\ req[t].call = "decrement_active_requests"
        /\ metrics.active_requests = 0
        /\ pc[u] = "increment_active_requests"

(***************************************************************************)
(* Configuration (src/src/config.rs) and the forwarding engine             *)
(* (src/src/proxy.rs, ProxyServer)                                         *)
(***************************************************************************)

\* Option<T>
None == [some |-> FALSE]
Some(v) == [some |-> TRUE, val |-> v]

T_a_com == <<"a", ".", "c", "o", "m">>
T_b_com == <<"b", ".", "c", "o", "m">>
T_e_com == <<"e", ".", "c", "o", "m">>
T_x_com == <<"x", ".", "c", "o", "m">>
T_unknown == <<"u", "n", "k", "n", "o", "w", "n">>
\* Variant of T_none: no text at all.
T_empty == <<>>

T_none == <<"n", "o", "n", "e">>
T_root == <<"/">>
T_api == <<"/", "a", "p", "i">>
T_v2 == <<"/", "v", "2">>
T_api_users == <<"/", "a", "p", "i", "/", "u", "s", "e", "r", "s">>
T_x_eq_1 == <<"x", "=", "1">>
T_http_u1 == <<"h", "t", "t", "p", ":", "/", "/", "u", "1">>
T_http_u2 == <<"h", "t", "t", "p", ":", "/", "/", "u", "2">>
T_http_u_2 == <<"h", "t", "t", "p", ":", "/", "/", "u", " ", "2">>

\* Upstream, with the serde defaults of weight, fail_threshold, cooldown_secs.
UpstreamOf(url) == [url |-> url, weight |-> 1, fail_threshold |-> 3, cooldown_secs |-> 15]

\* Config.routes of the configuration the proxy runs with: a route that
\* strips and rewrites its prefix and has two upstreams, a route without
\* upstreams, and a route whose upstream URL gives a target URI that does
\* not parse.
Routes ==
    << [name |-> "api", hosts |-> <<T_a_com>>, path_prefix |-> T_api,
        strip_prefix |-> TRUE, rewrite_prefix |-> Some(T_v2),
        upstreams |-> <<UpstreamOf(T_http_u1),
                        [UpstreamOf(T_http_u2) EXCEPT !.weight = 2]>>],
       [name |-> "empty", hosts |-> <<T_e_com>>, path_prefix |-> T_root,
        strip_prefix |-> FALSE, rewrite_prefix |-> None,
        upstreams |-> <<>>],
       [name |-> "bad", hosts |-> <<T_b_com>>, path_prefix |-> T_root,
        strip_prefix |-> FALSE, rewrite_prefix |-> None,
        upstreams |-> <<UpstreamOf(T_http_u_2)>>] >>

T_hi == <<"h", "i">>

\* The inbound requests: method, Host header, the path and query of the URI,
\* and the body.
Requests ==
    { [method |-> "GET", host |-> Some(T_a_com), path |-> T_api_users,
       query |-> Some(T_x_eq_1), body |-> T_hi],
      [method |-> "GET", host |-> Some(T_x_com), path |-> T_root, query |-> None,
       body |-> <<>>],
      [method |-> "GET", host |-> Some(T_e_com), path |-> T_root, query |-> None,
       body |-> <<>>],
      [method |-> "POST", host |-> Some(T_b_com), path |-> T_root, query |-> None,
       body |-> T_hi] }

\* The statuses an upstream answers with.
UpstreamStatuses == {200, 502}

\* A byte of a header value that is not visible ASCII.
NonTextByte == "0xFF"

\* HeaderValue::to_str succeeds when every byte of the value is text.
IsText(value) == \A i \in 1..Len(value) : value[i] # NonTextByte

\* Variant of HostOf: no host at all when the header is absent or not text.
HostOfOrEmpty(request) ==
    IF request.host.some /\ IsText(request.host.val) THEN request.host.val ELSE <<>>

\* req.headers().get("host").and_then(|h| h.to_str().ok()).unwrap_or("unknown")
HostOf(request) ==
    IF request.host.some /\ IsText(request.host.val) THEN request.host.val ELSE T_unknown

\* The positions of an upstream list at which the weight is the greatest.
HeaviestAt(upstreams) ==
    {i \in 1..Len(upstreams) : \A j \in 1..Len(upstreams) : upstreams[j].weight <= upstreams[i].weight}

\* Variant of select_upstream: the first upstream of the greatest weight.
select_upstream_weighted(upstreams) ==
    IF Len(upstreams) = 0
    THEN None
    ELSE Some(upstreams[CHOOSE i \in HeaviestAt(upstreams) :
                            \A j \in HeaviestAt(upstreams) : i <= j].url)

\* select_upstream: upstreams.first().map(|u| u.url.clone())
select_upstream(upstreams) ==
    IF Len(upstreams) = 0 THEN None ELSE Some(upstreams[1].url)

\* Variant of StripPrefix: the prefix is left on the path.
StripPrefixKept(path, prefix) == path

\* path.strip_prefix(&route.path_prefix).unwrap_or(path)
StripPrefix(path, prefix) ==
    IF StartsWith(path, prefix) THEN SliceFrom(path, Len(prefix)) ELSE path

\* The rewritten path of proxy_request.
NewPath(route, path) ==
    IF route.strip_prefix
    THEN LET stripped == StripPrefix(path, route.path_prefix)
         IN  IF route.rewrite_prefix.some
             THEN route.rewrite_prefix.val \o stripped
             ELSE stripped
    ELSE path

\* req.uri().query().map(|q| format!("?{}", q)).unwrap_or_default()
QueryText(query) == IF query.some THEN <<"?">> \o query.val ELSE <<>>

\* format!("{}{}{}", upstream_url, new_path, query)
NewUri(route, upstream_url, request) ==
    upstream_url \o NewPath(route, request.path) \o QueryText(request.query)

\* new_uri.parse(): the http crate's Uri parser rejects the empty text and
\* any text with a character outside the URI character set; a space is the
\* one such character of the texts of this model.
UriParses(uri) == Len(uri) > 0 /\ \A i \in 1..Len(uri) : uri[i] # " "

(***************************************************************************)
(* handle_request, one task per connection.  A task is at the label of     *)
(* the SharedState method it calls next, at "route" before the route       *)
(* lookup, at "proxy_request" on entry to proxy_request, at                *)
(* "client_request" while client.request(req).await is pending, and at     *)
(* "return" before Ok(result).                                             *)
(***************************************************************************)

MaxRequests == 2

\* The locals of handle_request for inbound request `request`.  status is the
\* status given to log_request and response the status of the response the
\* handler returns.  id numbers the request, errors counts its calls of
\* increment_errors and attempts lists the target URIs of its calls of
\* client.request; these three are not variables of the code.  outbound is
\* the request given to client.request.
NewLocals(id, request) ==
    [id |-> id, call |-> "handle_request", request |-> request,
     method |-> request.method, host |-> <<>>, path |-> <<>>,
     route |-> 0, upstream |-> <<>>, new_uri |-> <<>>,
     status |-> 0, response |-> 0, outcome |-> "pending", errors |-> 0,
     attempts |-> <<>>, outbound |-> None, answer |-> 0]

\* The RequestLog that log_request builds.  timestamp and duration_ms are
\* clock readings and are left out; req_id is not a field of the code's
\* RequestLog: it names the request that made the record.
LogOf(r) ==
    [req_id |-> r.id, method |-> r.method, path |-> r.path, host |-> r.host,
     status |-> r.status, upstream |-> r.upstream]

\* Variant of AfterIncrementErrors: the 503 arm returns without log_request.
AfterIncrementErrorsNoLog503(r) ==
    IF r.status = 503 THEN "decrement_active_requests" ELSE "add_request_log"

\* What follows self.state.increment_errors() in every arm: log_request.
AfterIncrementErrors(r) == "add_request_log"

\* Variant of OnTransportError: the Err arm sends the request again.
OnTransportErrorRetry == "proxy_request"

\* Variant of OnTransportError: the Err arm builds the 502 without
\* increment_errors.
OnTransportErrorUncounted == "add_request_log"

\* The Err(e) arm of client.request(req).await: increment_errors first.
OnTransportError == "increment_errors"

\* Variant of ErrorResponseStatus: a route without upstreams is answered
\* like a failed upstream.
ErrorResponseStatusBadGateway(outcome) ==
    CASE outcome = "no_route" -> 404
      [] outcome = "no_upstream" -> 502
      [] outcome = "bad_uri" -> 502
      [] outcome = "transport" -> 502

\* The StatusCode each error arm gives to error_response: NOT_FOUND,
\* SERVICE_UNAVAILABLE, BAD_GATEWAY.
ErrorResponseStatus(outcome) ==
    CASE outcome = "no_route" -> 404
      [] outcome = "no_upstream" -> 503
      [] outcome = "bad_uri" -> 502
      [] outcome = "transport" -> 502

\* The error arms: the status and upstream of the log record, the status of
\* the error response, and the call of increment_errors (or whatever `label`
\* names) that comes next.
FailWith(t, r, status, upstream, outcome, label) ==
    /\ req' = [req EXCEPT ![t] =
                  [r EXCEPT !.status = status, !.upstream = upstream,
                            !.response = ErrorResponseStatus(outcome),
                            !.outcome = outcome,
                            !.errors = @ + (IF label = "increment_errors" THEN 1 ELSE 0)]]
    /\ Goto(t, label)

\* The service function is called with the next request of a connection.
\* Idle tasks are all alike (no locals, no guard held), so the request is
\* given to the first of them.
Accept(t) ==
    /\ pc[t] = "idle"
    /\ \A u \in Tasks : u < t => pc[u] # "idle"
    /\ hist.calls < MaxRequests
    /\ \E request \in Requests :
          req' = [req EXCEPT ![t] = NewLocals(hist.calls + 1, request)]
    /\ hist' = [hist EXCEPT !.calls = @ + 1]
    /\ Goto(t, "increment_total_requests")
    /\ UNCHANGED <<arg, ret, metrics, request_logs, transactions, metrics_lock,
                   logs_lock, tmp, snapshot>>

\* host, path, find_route and select_upstream, and the 404 and 503 arms up
\* to their call of increment_errors.
Route(t) ==
    /\ pc[t] = "route"
    /\ LET host == HostOf(req[t].request)
           path == req[t].request.path
           r == [req[t] EXCEPT !.host = host, !.path = path]
           i == find_route(Routes, host, path)
       IN  IF i = 0
           THEN FailWith(t, r, 404, T_none, "no_route", "increment_errors")
           ELSE LET upstream == select_upstream(Routes[i].upstreams)
                IN  IF upstream.some
                    THEN /\ req' = [req EXCEPT ![t] =
                                       [r EXCEPT !.route = i, !.upstream = upstream.val]]
                         /\ Goto(t, "proxy_request")
                    ELSE FailWith(t, [r EXCEPT !.route = i], 503, T_none,
                                  "no_upstream", "increment_errors")
    /\ UNCHANGED <<arg, ret, metrics, request_logs, transactions, metrics_lock,
                   logs_lock, tmp, snapshot, hist>>

\* The host of an absolute URI: what lies between "//" and the next "/".
UriHost(uri) ==
    LET starts == {i \in 1..Len(uri) - 1 : uri[i] = "/" /\ uri[i + 1] = "/"}
    IN  IF starts = {}
        THEN <<>>
        ELSE LET from == (CHOOSE i \in starts : \A j \in starts : i <= j) + 2
                 ends == {i \in from..Len(uri) : uri[i] \in {"/", "?"}}
                 to == IF ends = {} THEN Len(uri)
                       ELSE (CHOOSE i \in ends : \A j \in ends : i <= j) - 1
             IN  SubSeq(uri, from, to)

\* Variant of OutboundRequest: the Host header is set to the host of the
\* target URI.
OutboundRequestHostRewritten(request, uri) ==
    [method |-> request.method, host |-> Some(UriHost(uri)), body |-> request.body,
     uri |-> uri]

\* *req.uri_mut() = uri: the inbound request with its URI replaced; method,
\* headers and body are those of the inbound request.
OutboundRequest(request, uri) ==
    [method |-> request.method, host |-> request.host, body |-> request.body,
     uri |-> uri]

\* proxy_request up to the outbound request: the target URI, the call of
\* client.request with it, and the Err arm of new_uri.parse().  The status
\* logged for a response proxy_request built is response.status().
ProxyRequest(t) ==
    /\ pc[t] = "proxy_request"
    /\ LET r == req[t]
           new_uri == NewUri(Routes[r.route], r.upstream, r.request)
       IN  IF UriParses(new_uri)
           THEN /\ req' = [req EXCEPT ![t] =
                              [r EXCEPT !.new_uri = new_uri,
                                        !.attempts = Append(@, new_uri),
                                        !.outbound = Some(OutboundRequest(r.request, new_uri))]]
                /\ Goto(t, "client_request")
           ELSE FailWith(t, [r EXCEPT !.new_uri = new_uri],
                         ErrorResponseStatus("bad_uri"), r.upstream,
                         "bad_uri", "increment_errors")
    /\ UNCHANGED <<arg, ret, metrics, request_logs, transactions, metrics_lock,
                   logs_lock, tmp, snapshot, hist>>

\* Variant of RelayedStatus: a server error of the upstream is answered
\* with 500.
RelayedStatusMasked(status) == IF status >= 500 THEN 500 ELSE status

\* Response::from_parts(parts, body): the status of the response returned
\* is the status in the parts of the upstream's response.
RelayedStatus(status) == status

\* client.request(req).await returns Ok(response): the response is relayed,
\* and the status logged is response.status().  answer is the status the
\* upstream sent; it is not a variable of the code.
UpstreamResponds(t) ==
    /\ pc[t] = "client_request"
    /\ \E status \in UpstreamStatuses :
          req' = [req EXCEPT ![t] = [@ EXCEPT !.answer = status,
                                              !.response = RelayedStatus(status),
                                              !.status = RelayedStatus(status),
                                              !.outcome = "relayed"]]
    /\ Goto(t, "add_request_log")
    /\ UNCHANGED <<arg, ret, metrics, request_logs, transactions, metrics_lock,
                   logs_lock, tmp, snapshot, hist>>

\* client.request(req).await returns Err(e).
UpstreamFails(t) ==
    /\ pc[t] = "client_request"
    /\ FailWith(t, req[t], ErrorResponseStatus("transport"), req[t].upstream,
                "transport", OnTransportError)
    /\ UNCHANGED <<arg, ret, metrics, request_logs, transactions, metrics_lock,
                   logs_lock, tmp, snapshot, hist>>

\* Ok(result): the response goes back to the caller.
Return(t) ==
    /\ pc[t] = "return"
    /\ hist' = [hist EXCEPT !.returned = @ \cup
                   {[id |-> req[t].id, request |-> req[t].request,
                     route |-> req[t].route, status |-> req[t].status,
                     response |-> req[t].response, outcome |-> req[t].outcome,
                     errors |-> req[t].errors, attempts |-> req[t].attempts,
                     outbound |-> req[t].outbound, answer |-> req[t].answer]}]
    /\ req' = [req EXCEPT ![t] = NoReq]
    /\ Goto(t, "idle")
    /\ UNCHANGED <<arg, ret, metrics, request_logs, transactions, metrics_lock,
                   logs_lock, tmp, snapshot>>

Init ==
    /\ arg = 0
    /\ ret = NoRet
    /\ StoreInit

Next ==
    \E t \in Tasks :
        \/ Accept(t)
        \/ increment_total_requests(t, "increment_active_requests")
        \/ increment_active_requests(t, "route")
        \/ Route(t)
        \/ ProxyRequest(t)
        \/ UpstreamResponds(t)
        \/ UpstreamFails(t)
        \/ increment_errors(t, AfterIncrementErrors(req[t]))
        \/ add_request_log(t, LogOf(req[t]), "decrement_active_requests")
        \/ decrement_active_requests(t, "return")
        \/ Return(t)

Spec == Init /\ [][Next]_vars

\* The positions in the log history of the records request `id` made.
LogsBy(id) == {k \in DOMAIN hist.pushed : hist.pushed[k].req_id = id}

\* The tasks that are inside handle_request.
InFlight == {t \in Tasks : req[t].call = "handle_request"}

\* C1: every request whose handler returned made exactly one log record,
\* whatever its outcome; no request ever makes more than one; and the
\* records made are the records in the log.
C1_ExactlyOneLogEntry ==
    /\ \A d \in hist.returned : Cardinality(LogsBy(d.id)) = 1
    /\ \A t \in InFlight : Cardinality(LogsBy(req[t].id)) <= 1
    /\ request_logs = hist.pushed

\* Two requests have returned, one relayed and one answered 502 for a
\* target URI that does not parse, and the log holds two records.
C1_Witness ==
    /\ \E d, e \in hist.returned : d.outcome = "relayed" /\ e.outcome = "bad_uri"
    /\ Len(request_logs) = 2

\* The outcomes the proxy generates itself, and the status of each.
ProxyGenerated == {"no_route", "no_upstream", "bad_uri", "transport"}
StatusOfOutcome(outcome) ==
    CASE outcome = "no_route" -> 404
      [] outcome = "no_upstream" -> 503
      [] OTHER -> 502

\* The tasks whose request has completed a call of increment_errors.
ErrorCounted ==
    {t \in InFlight : req[t].errors > 0
                      /\ pc[t] \notin {"increment_errors", "increment_errors.locked"}}

\* C2: a request calls increment_errors exactly once when its outcome is a
\* proxy-generated 404, 503 or 502, and not at all when an upstream response
\* is relayed, whatever its status; total_errors counts exactly these calls.
C2_ErrorsCountedOnce ==
    /\ \A d \in hist.returned :
          IF d.outcome \in ProxyGenerated
          THEN d.errors = 1 /\ d.status = StatusOfOutcome(d.outcome)
          ELSE d.errors = 0 /\ d.outcome = "relayed"
    /\ \A t \in InFlight : req[t].errors \in {0, 1}
    /\ metrics.total_errors =
          Cardinality({d \in hist.returned : d.errors = 1}) + Cardinality(ErrorCounted)

\* An upstream's own 502 has been relayed and a transport failure has been
\* answered 502: one error is counted.
C2_Witness ==
    /\ \E d, e \in hist.returned :
          /\ d.outcome = "relayed" /\ d.status = 502
          /\ e.outcome = "transport" /\ e.status = 502
    /\ metrics.total_errors = 1

\* C3: once every handler that started has returned, total_requests is the
\* number of requests handled and total_errors the number of them that ended
\* in a proxy-generated 404, 502 or 503.
C3_NoLostUpdate ==
    (\A t \in Tasks : pc[t] = "idle") =>
        /\ Cardinality(hist.returned) = hist.calls
        /\ metrics.total_requests = hist.calls
        /\ metrics.total_errors =
              Cardinality({d \in hist.returned : d.outcome \in ProxyGenerated})

\* Two requests ran concurrently (the second one accepted was logged
\* first) and both have returned, both with a proxy-generated error.
C3_Witness ==
    /\ \A t \in Tasks : pc[t] = "idle"
    /\ Len(hist.pushed) = 2
    /\ hist.pushed[1].req_id = 2
    /\ metrics.total_requests = 2
    /\ metrics.total_errors = 2

(***************************************************************************)
(* The target URI of proxy_request as a function of its inputs             *)
(***************************************************************************)

T_slash_x == <<"/", "x">>
T_apiv2 == <<"/", "a", "p", "i", "v", "2">>
T_v2_users_x_eq_1 ==
    T_http_u1 \o <<"/", "v", "2", "/", "u", "s", "e", "r", "s", "?", "x", "=", "1">>

\* Route.path_prefix, Route.rewrite_prefix, and the path and query of a request.
ForwardPrefixes == {<<>>, T_root, T_api}
ForwardRewrites == {None, Some(T_v2), Some(T_root)}
ForwardPaths == {T_root, T_api, T_api_users, T_apiv2, T_slash_x}
ForwardQueries == {None, Some(<<>>), Some(T_x_eq_1)}

ForwardInit ==
    /\ arg \in [route : [path_prefix : ForwardPrefixes, strip_prefix : BOOLEAN,
                         rewrite_prefix : ForwardRewrites],
                upstream_url : {T_http_u1, T_http_u_2},
                request : [path : ForwardPaths, query : ForwardQueries]]
    /\ ret = [done |-> FALSE, val |-> <<>>]
    /\ StoreInit

\* The lines of proxy_request that compute new_uri.
ForwardCall ==
    /\ ~ret.done
    /\ ret' = [done |-> TRUE, val |-> NewUri(arg.route, arg.upstream_url, arg.request)]
    /\ UNCHANGED <<arg, storeVars>>

ForwardNext == ForwardCall

ForwardSpec == ForwardInit /\ [][ForwardNext]_vars

\* The texts x with path = prefix \o x (one at most).
Remainders(prefix, path) ==
    {SubSeq(path, k + 1, Len(path)) : k \in {j \in 0..Len(path) : SubSeq(path, 1, j) = prefix}}

\* The rewrite prefix, empty when none is configured.
RewriteText(route) == IF route.rewrite_prefix.some THEN route.rewrite_prefix.val ELSE <<>>

\* The query as forwarded: "?" and the query when there is one.
QuerySuffix(request) == IF request.query.some THEN <<"?">> \o request.query.val ELSE <<>>

\* C11: with strip_prefix set, and the path carrying the route's prefix (as
\* it does on every route find_route returns), the target URI is the
\* upstream URL, the rewrite prefix, the path without the prefix and the
\* query, concatenated.
C11_StripAndRewrite ==
    (ret.done /\ arg.route.strip_prefix) =>
        \A rest \in Remainders(arg.route.path_prefix, arg.request.path) :
            ret.val = arg.upstream_url \o RewriteText(arg.route) \o rest
                      \o QuerySuffix(arg.request)

\* prefix /api, rewrite /v2, upstream http://u1, request /api/users?x=1 is
\* forwarded to http://u1/v2/users?x=1.
C11_Witness ==
    /\ ret.done
    /\ arg.route = [path_prefix |-> T_api, strip_prefix |-> TRUE, rewrite_prefix |-> Some(T_v2)]
    /\ arg.upstream_url = T_http_u1
    /\ arg.request = [path |-> T_api_users, query |-> Some(T_x_eq_1)]
    /\ ret.val = T_v2_users_x_eq_1

\* C12: a configured rewrite prefix is prepended to the path the strip step
\* produced, also when strip_prefix is not set (the strip step then leaves
\* the path as it is).
C12_RewriteAlwaysPrepended ==
    (ret.done /\ arg.route.rewrite_prefix.some) =>
        \A rest \in (IF arg.route.strip_prefix
                     THEN Remainders(arg.route.path_prefix, arg.request.path)
                     ELSE {arg.request.path}) :
            ret.val = arg.upstream_url \o arg.route.rewrite_prefix.val \o rest
                      \o QuerySuffix(arg.request)

(***************************************************************************)
(* select_upstream as a function of the route's upstream list, called      *)
(* between requests that fail and are counted in the store                 *)
(***************************************************************************)

MaxUpstreams == 2
MaxSelectFailures == 2

\* The upstreams a configuration file can declare.
UpstreamSet ==
    [url : {T_http_u1, T_http_u2}, weight : {1, 2}, fail_threshold : {1, 3},
     cooldown_secs : {15}]

UpstreamLists == UNION {[1..n -> UpstreamSet] : n \in 0..MaxUpstreams}

SelectInit ==
    /\ arg \in [upstreams : UpstreamLists]
    /\ ret = [done |-> FALSE, val |-> None, errors |-> 0]
    /\ StoreInit

\* A call of select_upstream; ret.errors is the number of failures the store
\* had counted when the call was made.
SelectCall ==
    /\ ret' = [done |-> TRUE, val |-> select_upstream(arg.upstreams),
               errors |-> metrics.total_errors]
    /\ ret' # ret
    /\ UNCHANGED <<arg, storeVars>>

\* An earlier request fails: the handler counts the error.
SelectFailure(t) ==
    /\ pc[t] = "idle"
    /\ metrics.total_errors < MaxSelectFailures
    /\ Goto(t, "increment_errors")
    /\ UNCHANGED <<arg, ret, metrics, request_logs, transactions, metrics_lock,
                   logs_lock, req, tmp, snapshot, hist>>

SelectNext ==
    \/ SelectCall
    \/ SelectFailure(1)
    \/ increment_errors(1, "idle")

SelectSpec == SelectInit /\ [][SelectNext]_vars

LogPairsBy(id) == {<<hist.pushed[k].status, hist.pushed[k].upstream>> : k \in LogsBy(id)}

\* The requests the route table has no route for.
UnroutedRequests ==
    {request \in Requests : find_route(Routes, HostOf(request), request.path) = 0}

\* The requests whose route has an empty upstream list.
RequestsRoutedToNone ==
    {request \in Requests \ UnroutedRequests :
        Len(Routes[find_route(Routes, HostOf(request), request.path)].upstreams) = 0}

\* The route table has no route for the request.
Unrouted(request) == request \in UnroutedRequests

\* The route table has a route for the request and its upstream list is empty.
RoutedToNone(request) == request \in RequestsRoutedToNone

\* C14: a request no route matches is answered with 404 without any
\* outbound request (none while it is handled, none when it has returned),
\* and its one log record has status 404 and upstream "none".
C14_NoRoute404 ==
    /\ \A t \in InFlight :
          Unrouted(req[t].request) =>
              /\ req[t].attempts = <<>>
              /\ pc[t] \notin {"proxy_request", "client_request"}
    /\ \A d \in hist.returned :
          Unrouted(d.request) =>
              /\ d.response = 404
              /\ d.attempts = <<>>
              /\ Cardinality(LogsBy(d.id)) = 1
              /\ LogPairsBy(d.id) = {<<404, <<"n", "o", "n", "e">> >>}

C14_Witness ==
    \E d \in hist.returned :
        /\ d.request.host = Some(T_x_com)
        /\ d.response = 404
        /\ LogsBy(d.id) # {}

\* C15: a request whose route has an empty upstream list is answered with
\* 503 without any outbound request, and its one log record has status 503
\* and upstream "none"; the handler returns and the proxy goes on serving.
C15_NoUpstream503 ==
    /\ \A t \in InFlight :
          RoutedToNone(req[t].request) =>
              /\ req[t].attempts = <<>>
              /\ pc[t] \notin {"proxy_request", "client_request"}
    /\ \A d \in hist.returned :
          RoutedToNone(d.request) =>
              /\ d.response = 503
              /\ d.attempts = <<>>
              /\ Cardinality(LogsBy(d.id)) = 1
              /\ LogPairsBy(d.id) = {<<503, <<"n", "o", "n", "e">> >>}

\* A request for the route without upstreams has returned with 503 and the
\* request after it has been answered by an upstream.
C15_Witness ==
    \E d, e \in hist.returned :
        /\ d.id < e.id
        /\ d.request.host = Some(T_e_com)
        /\ d.response = 503
        /\ e.outcome = "relayed"
        /\ e.response = 200

\* The URL of the first upstream of the route of a request.
SelectedUrl(route) == Head(Routes[route].upstreams).url

\* C16: a request whose outbound request fails, or whose target URI does not
\* parse, is answered with 502 after at most one outbound attempt, made to
\* the route's first upstream (none when the URI does not parse); its one
\* log record has status 502 and the URL of that upstream, not "none".  No
\* request makes a second attempt.
C16_BadGatewayNoRetry ==
    /\ \A t \in InFlight : Len(req[t].attempts) <= 1
    /\ \A d \in hist.returned :
          d.outcome \in {"transport", "bad_uri"} =>
              /\ d.response = 502
              /\ Len(d.attempts) = (IF d.outcome = "transport" THEN 1 ELSE 0)
              /\ \A k \in DOMAIN d.attempts : StartsWith(d.attempts[k], SelectedUrl(d.route))
              /\ Cardinality(LogsBy(d.id)) = 1
              /\ LogPairsBy(d.id) = {<<502, SelectedUrl(d.route)>>}
              /\ SelectedUrl(d.route) # <<"n", "o", "n", "e">>

\* A transport failure on a route with a second upstream, and an unparsable
\* target URI, have both been answered.
C16_Witness ==
    \E d, e \in hist.returned :
        /\ d.outcome = "transport"
        /\ Len(Routes[d.route].upstreams) = 2
        /\ d.attempts = <<T_v2_users_x_eq_1>>
        /\ e.outcome = "bad_uri"
        /\ e.response = 502

(***************************************************************************)
(* One connection sending the same request again and again while the       *)
(* upstream is unreachable                                                 *)
(***************************************************************************)

MaxRepeats == 10

\* The request that is repeated: it is routed to http://u1.
RepeatedRequest ==
    [method |-> "GET", host |-> Some(T_a_com), path |-> T_api_users,
     query |-> Some(T_x_eq_1), body |-> T_hi]

\* The service function is called with the next request of the connection.
AcceptRepeated(t) ==
    /\ pc[t] = "idle"
    /\ hist.calls < MaxRepeats
    /\ req' = [req EXCEPT ![t] = NewLocals(hist.calls + 1, RepeatedRequest)]
    /\ hist' = [hist EXCEPT !.calls = @ + 1]
    /\ Goto(t, "increment_total_requests")
    /\ UNCHANGED <<arg, ret, metrics, request_logs, transactions, metrics_lock,
                   logs_lock, tmp, snapshot>>

\* handle_request on the one task, with client.request always returning Err.
RepeatNext ==
    \/ AcceptRepeated(1)
    \/ increment_total_requests(1, "increment_active_requests")
    \/ increment_active_requests(1, "route")
    \/ Route(1)
    \/ ProxyRequest(1)
    \/ UpstreamFails(1)
    \/ increment_errors(1, AfterIncrementErrors(req[1]))
    \/ add_request_log(1, LogOf(req[1]), "decrement_active_requests")
    \/ decrement_active_requests(1, "return")
    \/ Return(1)

RepeatSpec == Init /\ [][RepeatNext]_vars

\* C17: when the k-th of the repeated requests has been answered, k requests
\* and k errors have been counted and active_requests is back at the value
\* it had before the request, for every k; while the k-th is handled the
\* counters never exceed k, and every answer is the 502 of a failed attempt.
C17_RepeatedFailuresCounted ==
    /\ pc[1] = "idle" =>
          /\ metrics.total_requests = hist.calls
          /\ metrics.total_errors = hist.calls
          /\ metrics.active_requests = 0
    /\ pc[1] # "idle" =>
          /\ metrics.total_requests \in {hist.calls - 1, hist.calls}
          /\ metrics.total_errors \in {hist.calls - 1, hist.calls}
          /\ metrics.active_requests \in {0, 1}
    /\ \A d \in hist.returned :
          d.response = 502 /\ d.outcome = "transport" /\ d.errors = 1 /\ Len(d.attempts) = 1

\* The fifth request in a row has been answered.
C17_Witness ==
    /\ pc[1] = "idle"
    /\ hist.calls = 5
    /\ Cardinality(hist.returned) = 5
    /\ metrics.total_requests = 5
    /\ metrics.total_errors = 5

\* The fields of ProxyMetrics a task has copied so far.
Copied(t) ==
    CASE pc[t] = "get_metrics.total_requests" -> {"total_requests"}
      [] pc[t] = "get_metrics.active_requests" -> {"total_requests", "active_requests"}
      [] OTHER -> {}

\* C19: the values one call of get_metrics returns all held together in one
\* state of the store: while the copy is being made every field copied so
\* far is the store's, and when the call returns the whole copy is the store
\* of that state.
C19_SnapshotPointInTime ==
    /\ [](\A t \in Tasks : \A f \in Copied(t) : snapshot[t][f] = metrics[f])
    /\ [][\A t \in Tasks :
            (pc[t] = "get_metrics.active_requests" /\ pc'[t] = "idle")
                => snapshot'[t] = metrics]_vars

\* A call of get_metrics has returned the counters 1, 1, 0 while another
\* task is about to count an error.
C19_Witness ==
    \E t, u \in Tasks :
        /\ pc[t] = "idle"
        /\ req[t].call = "get_metrics"
        /\ snapshot[t] = [NewMetrics EXCEPT !.total_requests = 1, !.active_requests = 1]
        /\ pc[u] = "increment_errors"

\* The step of task t from position `from` leaves every field of the metrics
\* but `field`, the log and the transactions as they are.
OnlyField(t, from, field) ==
    (pc[t] = from /\ pc'[t] # from) =>
        /\ \A f \in DOMAIN metrics \ {field} : metrics'[f] = metrics[f]
        /\ request_logs' = request_logs
        /\ transactions' = transactions

\* C20: increment_total_requests, increment_active_requests,
\* decrement_active_requests and increment_errors each change their own
\* counter (by one; the decrement not below 0) and nothing else of the
\* store, and add_request_log changes the log and nothing else.
C20_CountersIndependent ==
    [][\A t \in Tasks :
        /\ OnlyField(t, "increment_total_requests", "total_requests")
        /\ OnlyField(t, "increment_total_requests.locked", "total_requests")
        /\ (pc[t] = "increment_total_requests.locked" /\ pc'[t] # pc[t])
              => metrics'.total_requests = metrics.total_requests + 1
        /\ OnlyField(t, "increment_active_requests", "active_requests")
        /\ OnlyField(t, "increment_active_requests.locked", "active_requests")
        /\ (pc[t] = "increment_active_requests.locked" /\ pc'[t] # pc[t])
              => metrics'.active_requests = metrics.active_requests + 1
        /\ OnlyField(t, "decrement_active_requests", "active_requests")
        /\ OnlyField(t, "decrement_active_requests.locked", "active_requests")
        /\ (pc[t] = "decrement_active_requests.locked" /\ pc'[t] # pc[t])
              => metrics'.active_requests =
                     (IF metrics.active_requests > 0 THEN metrics.active_requests - 1 ELSE 0)
        /\ OnlyField(t, "increment_errors", "total_errors")
        /\ OnlyField(t, "increment_errors.locked", "total_errors")
        /\ (pc[t] = "increment_errors.locked" /\ pc'[t] # pc[t])
              => metrics'.total_errors = metrics.total_errors + 1
        /\ (pc[t] \in {"add_request_log", "add_request_log.locked", "add_request_log.pushed"}
            /\ pc'[t] # pc[t])
              => (metrics' = metrics /\ transactions' = transactions)
        /\ (pc[t] = "add_request_log.locked" /\ pc'[t] # pc[t])
              => request_logs' # request_logs
      ]_vars

\* All five methods have run: one request is answered, counted, counted as
\* an error and logged, and a second one is counted and active.
C20_Witness ==
    /\ metrics.total_requests = 2
    /\ metrics.active_requests = 1
    /\ metrics.total_errors = 1
    /\ Len(request_logs) = 1
    /\ Cardinality(hist.returned) = 1

(***************************************************************************)
(* A reader of the store beside a connection's handler: it calls           *)
(* get_metrics and get_request_logs, in either order, while requests are   *)
(* handled                                                                 *)
(***************************************************************************)

MaxObservedRequests == 2
MaxReads == 2

\* The requests handled beside the reader: they are answered by the proxy.
ObservedRequests == {request \in Requests : HostOf(request) \in {T_x_com, T_e_com}}

\* arg counts the reads begun; ret is the set of what the reads returned:
\* the total_requests of the metrics and the requests whose records were in
\* the log.
ReaderInit ==
    /\ arg = 0
    /\ ret = {}
    /\ StoreInit

\* The service function is called with the next request of the connection.
AcceptObserved(t) ==
    /\ pc[t] = "idle"
    /\ hist.calls < MaxObservedRequests
    /\ \E request \in ObservedRequests :
          req' = [req EXCEPT ![t] = NewLocals(hist.calls + 1, request)]
    /\ hist' = [hist EXCEPT !.calls = @ + 1]
    /\ Goto(t, "increment_total_requests")
    /\ UNCHANGED <<arg, ret, metrics, request_logs, transactions, metrics_lock,
                   logs_lock, tmp, snapshot>>

\* The reader begins a read of both parts of the store, in one order or the
\* other.
ReaderStart(t) ==
    /\ pc[t] = "idle"
    /\ arg < MaxReads
    /\ arg' = arg + 1
    /\ \E order \in {"metrics_first", "logs_first"} :
          /\ req' = [req EXCEPT ![t] = [id |-> 0, call |-> "reader", order |-> order,
                                        phase |-> 1, first |-> <<>>]]
          /\ Goto(t, IF order = "metrics_first" THEN "get_metrics" ELSE "get_request_logs")
    /\ UNCHANGED <<ret, metrics, request_logs, transactions, metrics_lock,
                   logs_lock, tmp, snapshot, hist>>

\* The reader has the result of a call: it keeps the first and makes the
\* second call, or has both.
ReaderRead(t) ==
    /\ pc[t] = "reader_read"
    /\ IF req[t].phase = 1
       THEN /\ req' = [req EXCEPT ![t] = [@ EXCEPT !.phase = 2, !.first = snapshot[t]]]
            /\ Goto(t, IF req[t].order = "metrics_first"
                       THEN "get_request_logs" ELSE "get_metrics")
            /\ UNCHANGED <<ret, snapshot>>
       ELSE LET m == IF req[t].order = "metrics_first" THEN req[t].first ELSE snapshot[t]
                l == IF req[t].order = "metrics_first" THEN snapshot[t] ELSE req[t].first
            IN  /\ ret' = ret \cup {[order |-> req[t].order,
                                     total |-> m.total_requests,
                                     logged |-> {l[k].req_id : k \in DOMAIN l}]}
                /\ req' = [req EXCEPT ![t] = NoReq]
                /\ snapshot' = [snapshot EXCEPT ![t] = <<>>]
                /\ Goto(t, "idle")
    /\ UNCHANGED <<arg, metrics, request_logs, transactions, metrics_lock,
                   logs_lock, tmp, hist>>

\* Task 1 runs handle_request for the connection, task 2 is the reader.
ReaderNext ==
    \/ AcceptObserved(1)
    \/ increment_total_requests(1, "increment_active_requests")
    \/ increment_active_requests(1, "route")
    \/ Route(1)
    \/ increment_errors(1, AfterIncrementErrors(req[1]))
    \/ add_request_log(1, LogOf(req[1]), "decrement_active_requests")
    \/ decrement_active_requests(1, "return")
    \/ Return(1)
    \/ ReaderStart(2)
    \/ get_metrics(2, "reader_read")
    \/ get_request_logs(2, "reader_read")
    \/ ReaderRead(2)

ReaderSpec == ReaderInit /\ [][ReaderNext]_vars

\* C18: the counters and the log are never updated together: no step
\* changes both, and what a reader sees of a request in the one it need not
\* see in the other.  With one connection, whose requests are counted and
\* logged in their order: the store itself is at most the one request in
\* flight ahead of the log; a reader that reads the metrics first can miss
\* the record of the last request it saw counted (counter ahead) but of no
\* earlier one; a reader that reads the log first sees no record of a
\* request its metrics do not count.  That the counter is seen ahead and is
\* seen behind are the states of C18_Witness.
C18_CounterAndLogSkew ==
    /\ [][metrics' = metrics \/ request_logs' = request_logs]_vars
    /\ [](/\ Len(hist.pushed) <= metrics.total_requests
          /\ metrics.total_requests <= Len(hist.pushed) + 1
          /\ \A o \in ret :
                /\ o.order = "metrics_first" =>
                      \A id \in 1..(o.total - 1) : id \in o.logged
                /\ o.order = "logs_first" => \A id \in o.logged : id <= o.total)

\* One read saw a request counted whose record it did not see, another saw
\* the record of a request its total_requests does not count.
C18_Witness ==
    \E a, b \in ret :
        /\ \E id \in 1..a.total : id \notin a.logged
        /\ \E id \in b.logged : id > b.total

(***************************************************************************)
(* The control server beside a connection's handler                        *)
(***************************************************************************)

MaxControlRequests == 2

T_health == <<"/", "h", "e", "a", "l", "t", "h">>
T_metrics == <<"/", "m", "e", "t", "r", "i", "c", "s">>

\* The requests sent to the control server: method and path.
ControlRequests ==
    [method : {"GET", "POST"}, path : {T_health, T_metrics}]
        \cup {[method |-> "GET", path |-> T_root]}

\* The locals of ControlServer::handle_request.
ControlLocals(request) ==
    [id |-> 0, call |-> "control", method |-> request.method, path |-> request.path]

\* arg counts the control requests; ret is the set of the responses the
\* control server returned.
ControlInit ==
    /\ arg = 0
    /\ ret = {}
    /\ StoreInit

\* The control server's service function is called with a request.
ControlAccept(t) ==
    /\ pc[t] = "idle"
    /\ arg < MaxControlRequests
    /\ arg' = arg + 1
    /\ \E request \in ControlRequests :
          req' = [req EXCEPT ![t] = ControlLocals(request)]
    /\ Goto(t, "control.match")
    /\ UNCHANGED <<ret, metrics, request_logs, transactions, metrics_lock,
                   logs_lock, tmp, snapshot, hist>>

\* A response of the control server goes back to the caller.
ControlRespond(t, status, body) ==
    /\ ret' = ret \cup {[method |-> req[t].method, path |-> req[t].path,
                         status |-> status, body |-> body]}
    /\ req' = [req EXCEPT ![t] = NoReq]
    /\ snapshot' = [snapshot EXCEPT ![t] = <<>>]
    /\ Goto(t, "idle")

\* match (method, path): health_response, the call of get_metrics that
\* metrics_response begins with, or not_found_response.
ControlMatch(t) ==
    /\ pc[t] = "control.match"
    /\ IF req[t].method = "GET" /\ req[t].path = T_health
       THEN ControlRespond(t, 200, [status |-> "ok"])
       ELSE IF req[t].method = "GET" /\ req[t].path = T_metrics
            THEN Goto(t, "get_metrics") /\ UNCHANGED <<ret, req, snapshot>>
            ELSE ControlRespond(t, 404, [message |-> "Not Found"])
    /\ UNCHANGED <<arg, metrics, request_logs, transactions, metrics_lock,
                   logs_lock, tmp, hist>>

\* metrics_response after get_metrics: the body is formatted from the three
\* counters of the copy, with "upstreams":[].
ControlMetricsResponse(t) ==
    /\ pc[t] = "control.metrics_response"
    /\ ControlRespond(t, 200, [total_requests |-> snapshot[t].total_requests,
                               active_requests |-> snapshot[t].active_requests,
                               total_errors |-> snapshot[t].total_errors,
                               upstreams |-> <<>>])
    /\ UNCHANGED <<arg, metrics, request_logs, transactions, metrics_lock,
                   logs_lock, tmp, hist>>

\* Task 1 runs the proxy's handle_request for a connection, task 2 the
\* control server's.
ControlNext ==
    \/ AcceptObserved(1)
    \/ increment_total_requests(1, "increment_active_requests")
    \/ increment_active_requests(1, "route")
    \/ Route(1)
    \/ increment_errors(1, AfterIncrementErrors(req[1]))
    \/ add_request_log(1, LogOf(req[1]), "decrement_active_requests")
    \/ decrement_active_requests(1, "return")
    \/ Return(1)
    \/ ControlAccept(2)
    \/ ControlMatch(2)
    \/ get_metrics(2, "control.metrics_response")
    \/ ControlMetricsResponse(2)

ControlSpec == ControlInit /\ [][ControlNext]_vars

\* C21: no step of the control server's handler, whatever the request,
\* changes the counters, upstreams_status, the log or the transactions; and
\* total_requests counts proxied requests only, never more than the proxy
\* accepted.
C21_ControlNoWrites ==
    /\ [][\A t \in Tasks :
            ((req[t].call = "control" \/ req'[t].call = "control") /\ pc'[t] # pc[t])
                => /\ metrics' = metrics
                   /\ request_logs' = request_logs
                   /\ transactions' = transactions]_vars
    /\ [](metrics.total_requests <= hist.calls)

\* The proxy has counted one request; the control server has answered a GET
\* /metrics showing it and has answered another request with 404.
C21_Witness ==
    /\ metrics.total_requests = 1
    /\ \E a, b \in ret :
          /\ a.path = T_metrics /\ a.status = 200 /\ a.body.total_requests = 1
          /\ b.status = 404
    /\ arg = 2

(***************************************************************************)
(* Two connections under a fair scheduler, with upstreams that answer or   *)
(* fail in the end and upstreams that never do                             *)
(***************************************************************************)

MaxLiveRequests == 2

LiveTasks == {1, 2}

\* arg is the set of the upstream URLs that never answer and never fail.
LiveInit ==
    /\ arg \in {{}, {T_http_u1}}
    /\ ret = NoRet
    /\ StoreInit

\* Variant of Resumes: the client gives up on a silent upstream and returns
\* an error.
ResumesOrTimesOut(url) == TRUE

\* client.request(req).await returns only when the upstream has answered or
\* the transport has failed: the client is built without a timeout and the
\* future is awaited as it is.
Resumes(url) == url \notin arg

\* The requests of the two connections: one is proxied to http://u1, one
\* has no route, one has a target URI that does not parse.
LiveRequests == {request \in Requests : HostOf(request) \in {T_a_com, T_x_com, T_b_com}}

\* The service function is called with the next request of a connection;
\* idle tasks being all alike, the request is given to the first of them.
AcceptLive(t) ==
    /\ pc[t] = "idle"
    /\ \A u \in LiveTasks : u < t => pc[u] # "idle"
    /\ hist.calls < MaxLiveRequests
    /\ \E request \in LiveRequests :
          req' = [req EXCEPT ![t] = NewLocals(hist.calls + 1, request)]
    /\ hist' = [hist EXCEPT !.calls = @ + 1]
    /\ Goto(t, "increment_total_requests")
    /\ UNCHANGED <<arg, ret, metrics, request_logs, transactions, metrics_lock,
                   logs_lock, tmp, snapshot>>

\* The steps handle_request takes by itself.
Handle(t) ==
    \/ increment_total_requests(t, "increment_active_requests")
    \/ increment_active_requests(t, "route")
    \/ Route(t)
    \/ ProxyRequest(t)
    \/ increment_errors(t, AfterIncrementErrors(req[t]))
    \/ add_request_log(t, LogOf(req[t]), "decrement_active_requests")
    \/ decrement_active_requests(t, "return")
    \/ Return(t)

\* The outbound request comes back, with a response or with an error.
UpstreamAnswers(t) ==
    /\ pc[t] = "client_request"
    /\ Resumes(req[t].upstream)
    /\ (UpstreamResponds(t) \/ UpstreamFails(t))

LiveNext ==
    \E t \in LiveTasks :
        \/ AcceptLive(t)
        \/ Handle(t)
        \/ UpstreamAnswers(t)

\* Every task tokio has spawned is polled when it can go on, and an upstream
\* that is not silent answers or fails; requests arrive as they like.
LiveSpec ==
    /\ LiveInit
    /\ [][LiveNext]_vars
    /\ \A t \in LiveTasks : WF_vars(Handle(t)) /\ WF_vars(UpstreamAnswers(t))

\* The task waits for an upstream that never answers.
Hung(t) == pc[t] = "client_request" /\ req[t].upstream \in arg

\* The request is one that will wait for an upstream that never answers.
WillHang(request) ==
    LET i == find_route(Routes, HostOf(request), request.path)
    IN  /\ i # 0
        /\ Len(Routes[i].upstreams) > 0
        /\ Head(Routes[i].upstreams).url \in arg
        /\ UriParses(NewUri(Routes[i], Head(Routes[i].upstreams).url, request))

\* Request `id` is being handled and will not wait for a silent upstream.
Handling(id) ==
    \E t \in LiveTasks :
        req[t].call = "handle_request" /\ req[t].id = id /\ ~WillHang(req[t].request)

\* Request `id` has been answered and has its log record.
Completed(id) == (\E d \in hist.returned : d.id = id) /\ LogsBy(id) # {}

\* C22: a handler waiting for an upstream that never answers and never fails
\* stays where it is for ever, its request is never logged and its count in
\* active_requests is never released; every other request, before or after,
\* is still answered and logged, and when the others are done
\* active_requests is the number of the waiting handlers.
C22_HungUpstream ==
    /\ [][\A t \in LiveTasks : Hung(t) => Hung(t)']_vars
    /\ [](\A t \in LiveTasks :
            Hung(t) =>
                /\ LogsBy(req[t].id) = {}
                /\ metrics.active_requests >= Cardinality({u \in LiveTasks : Hung(u)}))
    /\ []((\A t \in LiveTasks : Hung(t) \/ pc[t] = "idle") =>
            metrics.active_requests = Cardinality({u \in LiveTasks : Hung(u)}))
    /\ \A id \in 1..MaxLiveRequests : Handling(id) ~> Completed(id)

\* The first request waits for the silent upstream; the second, which came
\* later on the other connection, has been answered and logged.
C22_Witness ==
    \E t \in LiveTasks :
        /\ Hung(t)
        /\ req[t].id = 1
        /\ Completed(2)
        /\ metrics.active_requests = 1
        /\ metrics.total_requests = 2

\* Every invocation of handle_request that was started has returned.
Quiescent == \A t \in LiveTasks : req[t].call # "handle_request"

\* No request is active and every request counted has its log record.
Settled ==
    /\ metrics.active_requests = 0
    /\ Len(hist.pushed) = metrics.total_requests

\* C26: whenever every started handler has returned, active_requests is 0 and
\* as many records have been appended as requests were counted; and when no
\* upstream stays silent, the proxy comes to such a state and stays in it
\* once requests stop arriving.
C26_Quiescence ==
    /\ [](Quiescent => Settled)
    /\ (arg = {}) => <>[](Quiescent /\ Settled)

\* Two requests, one of them relayed from the upstream, have been handled
\* and nothing is in flight.
C26_Witness ==
    /\ arg = {}
    /\ Quiescent
    /\ hist.calls = 2
    /\ metrics.total_requests = 2
    /\ Len(hist.pushed) = 2
    /\ \E d \in hist.returned : d.outcome = "relayed"

\* C23: the request given to the upstream has the method, the Host header
\* and the body of the inbound request, and the target URI as its URI; a
\* request that made no attempt gave none.
C23_OutboundDiffersInUri ==
    /\ \A t \in InFlight :
          req[t].outbound.some =>
              /\ req[t].outbound.val.method = req[t].request.method
              /\ req[t].outbound.val.host = req[t].request.host
              /\ req[t].outbound.val.body = req[t].request.body
              /\ req[t].outbound.val.uri = req[t].new_uri
    /\ \A d \in hist.returned :
          /\ d.outbound.some <=> d.attempts # <<>>
          /\ d.outbound.some =>
                /\ d.outbound.val.method = d.request.method
                /\ d.outbound.val.host = d.request.host
                /\ d.outbound.val.body = d.request.body
                /\ d.outbound.val.uri = d.attempts[1]

\* The request for a.com with body "hi" went to http://u1/v2/users?x=1 with
\* its Host header still a.com, and the upstream's answer was relayed.
C23_Witness ==
    \E d \in hist.returned :
        /\ d.outcome = "relayed"
        /\ d.outbound = Some([method |-> "GET", host |-> Some(T_a_com), body |-> T_hi,
                              uri |-> T_v2_users_x_eq_1])

\* C24: a response of the upstream is returned with the status the upstream
\* sent, a 5xx like any other; and whatever the outcome, the status in the
\* request's log record is the status of the response returned.
C24_StatusRelayedAndLogged ==
    \A d \in hist.returned :
        /\ d.outcome = "relayed" => (d.response = d.answer /\ d.answer \in UpstreamStatuses)
        /\ {hist.pushed[k].status : k \in LogsBy(d.id)} = {d.response}

\* An upstream's 502 has been relayed and logged as 502 without being
\* counted as an error, and a 404 of the proxy has been returned and logged.
C24_Witness ==
    \E d, e \in hist.returned :
        /\ d.outcome = "relayed" /\ d.answer = 502 /\ d.response = 502 /\ d.errors = 0
        /\ e.outcome = "no_route" /\ e.response = 404

\* The requests whose call of decrement_active_requests has returned.
Released == Cardinality(hist.returned) + Cardinality({t \in InFlight : pc[t] = "return"})

\* The outcomes of the requests handled so far, by request.
OutcomeOf(id) ==
    {req[t].outcome : t \in {u \in InFlight : req[u].id = id}}
        \cup {d.outcome : d \in {e \in hist.returned : e.id = id}}

\* The records appended for requests the proxy itself answered with an error.
ErrorRecords ==
    {k \in DOMAIN hist.pushed : OutcomeOf(hist.pushed[k].req_id) \cap ProxyGenerated # {}}

\* C25: under every interleaving of the handlers, active_requests and
\* total_errors never exceed total_requests, no more records have been
\* appended than requests counted, no more error records than errors
\* counted, and no more requests have released their active count than
\* records have been appended.
C25_CounterOrder ==
    /\ metrics.active_requests <= metrics.total_requests
    /\ metrics.total_errors <= metrics.total_requests
    /\ Cardinality(ErrorRecords) <= metrics.total_errors
    /\ Released <= Len(hist.pushed)
    /\ Len(hist.pushed) <= metrics.total_requests

\* Two requests are counted; both are logged, one of them as an error, and
\* one of them is still active.
C25_Witness ==
    /\ metrics.total_requests = 2
    /\ metrics.total_errors = 1
    /\ metrics.active_requests = 1
    /\ Len(hist.pushed) = 2
    /\ Released = 1

\* The positions of a handler between the return of increment_active_requests
\* and the return of decrement_active_requests.
ActivePositions ==
    {"route", "proxy_request", "client_request", "increment_errors",
     "increment_errors.locked", "add_request_log", "add_request_log.locked",
     "add_request_log.pushed", "decrement_active_requests",
     "decrement_active_requests.locked"}

\* C27: active_requests is the number of handlers that have incremented it
\* and not yet decremented it, and every decrement a handler makes finds it
\* at 1 or more.
C27_ActiveIsInFlight ==
    /\ metrics.active_requests = Cardinality({t \in InFlight : pc[t] \in ActivePositions})
    /\ \A t \in InFlight : pc[t] = "decrement_active_requests.locked" => tmp[t] >= 1

\* Both handlers are active, one of them inside its decrement, which found
\* the counter at 2.
C27_Witness ==
    /\ metrics.active_requests = 2
    /\ \E t \in InFlight : pc[t] = "decrement_active_requests.locked" /\ tmp[t] = 2

(***************************************************************************)
(* The host handle_request takes from a request, and the route and the log *)
(* record it leads to                                                      *)
(***************************************************************************)

MaxHostRoutes == 2

T_a_com_8080 == T_a_com \o <<":", "8", "0", "8", "0">>
T_not_text == <<"a", NonTextByte>>

\* The Host header of a request: absent, text, or bytes that are not text.
HostHeaders ==
    {None, Some(T_unknown), Some(T_a_com), Some(T_a_com_8080), Some(T_x_com),
     Some(T_not_text)}

\* A route for every path with the given host patterns.
HostRoute(hosts) ==
    [name |-> "r", hosts |-> hosts, path_prefix |-> T_root, strip_prefix |-> FALSE,
     rewrite_prefix |-> None, upstreams |-> <<>>]

HostRouteSet == {HostRoute(<<T_a_com>>), HostRoute(<<T_unknown>>), HostRoute(<<T_x_com>>)}

HostRouteTables == UNION {[1..n -> HostRouteSet] : n \in 1..MaxHostRoutes}

HostInit ==
    /\ arg \in [routes : HostRouteTables,
                request : [method : {"GET"}, host : HostHeaders, path : {T_root},
                           query : {None}, body : {<<>>}]]
    /\ ret = [done |-> FALSE]
    /\ StoreInit

\* handle_request from the Host header to find_route, and the record that
\* log_request builds with the same host.
HostCall ==
    /\ ~ret.done
    /\ LET host == HostOf(arg.request)
           path == arg.request.path
           r == [NewLocals(1, arg.request) EXCEPT !.host = host, !.path = path]
       IN  ret' = [done |-> TRUE, host |-> host,
                   route |-> find_route(arg.routes, host, path), log |-> LogOf(r)]
    /\ UNCHANGED <<arg, storeVars>>

HostNext == HostCall

HostSpec == HostInit /\ [][HostNext]_vars

\* The request's Host header is there and is text.
HasTextHost ==
    /\ arg.request.host.some
    /\ \A i \in DOMAIN arg.request.host.val : arg.request.host.val[i] # "0xFF"

\* The routes of the table with a pattern equal to `host`.
RoutesNaming(host) ==
    {i \in DOMAIN arg.routes :
        \E k \in DOMAIN arg.routes[i].hosts : arg.routes[i].hosts[k] = host}

\* C28: the host matched and logged is the Host header as it was sent, or
\* "unknown" when the header is absent or not text; such a request gets the
\* route a request with Host "unknown" gets, none unless a route names
\* "unknown"; and a.com:8080 is not matched by the pattern a.com.
C28_HostOrUnknown ==
    ret.done =>
        /\ ret.log.host = ret.host
        /\ HasTextHost => ret.host = arg.request.host.val
        /\ ~HasTextHost =>
              /\ ret.host = <<"u", "n", "k", "n", "o", "w", "n">>
              /\ ret.route = find_route(arg.routes, <<"u", "n", "k", "n", "o", "w", "n">>,
                                        arg.request.path)
              /\ ret.route = 0 <=> RoutesNaming(<<"u", "n", "k", "n", "o", "w", "n">>) = {}
        /\ arg.request.host = Some(T_a_com_8080) =>
              /\ ret.host = T_a_com_8080
              /\ ret.route \notin RoutesNaming(T_a_com)
              /\ ret.route = 0

\* A request without a Host header has taken the route for "unknown", the
\* second of the table.
C28_Witness ==
    /\ ret.done
    /\ arg.request.host = None
    /\ ret.host = T_unknown
    /\ ret.route = 2
    /\ arg.routes[1].hosts = <<T_a_com>>

====
